---- MODULE Spec2Model ----
(***************************************************************************)
(* SearchPipe of singlem/pipe.py: the OTU aggregator                       *)
(* (_seqs_to_counts_and_taxonomy with _median_taxonomy), the placement     *)
(* rewriter (_write_jplace_from_infos) and run, which calls both for each  *)
(* (sample, package) pair.                                                 *)
(*                                                                         *)
(* Strings that the code only compares (window sequences) are TLA+         *)
(* strings.  Taxonomy strings are split, stripped and joined by the code,  *)
(* so they are sequences of one-character strings: "a; x" is               *)
(* <<"a", ";", " ", "x">>.  A read name is <<i, k>>: read i followed by k  *)
(* trailing "_<digits>" groups.  A Python dict is a function whose DOMAIN  *)
(* is its key set; the order in which a dict is iterated is fixed for a    *)
(* run but is not the insertion order (dict_order).                        *)
(***************************************************************************)
EXTENDS Integers, Sequences, FiniteSets, TLC

VARIABLES
    sequences,              \* argument: the list of SequenceWindow records
    taxonomies,             \* argument: read name -> taxonomy string
    use_first_taxonomy,     \* argument
    dict_order,             \* iteration order of this run's dicts
    pc,                     \* position in the code
    raised,                 \* the exception that ended the call, or "none"
    seq_to_collected_info,  \* pipe.py:337
    infos,                  \* pipe.py:214, the list of Info records
    jplace,                 \* the placement document read from input_jplace_io
    name_to_info,           \* pipe.py:414
    sequence_to_count,      \* pipe.py:422
    sequence_to_example_p,  \* pipe.py:423
    placement_i,            \* the placement the loop of pipe.py:424 is at
    nm_i,                   \* the nm element the loop of pipe.py:427 is at
    output_jplace_io,       \* what has been written to the output stream
    kwargs,                 \* run's arguments that steer it
    sample_names,           \* pipe.py:104
    sample_to_gpkg_to_input_sequences,  \* pipe.py:117, as (sample, package) pairs
    pair_i,                 \* the (sample, package) pair the loops of pipe.py:170-172 are at
    otu_table_object,       \* pipe.py:160, its data rows
    steps                   \* the steps run has performed, in order

\* The arguments and locals of _seqs_to_counts_and_taxonomy, and those of
\* _write_jplace_from_infos.
aggvars == <<sequences, taxonomies, use_first_taxonomy, dict_order,
             seq_to_collected_info, infos>>

jvars == <<jplace, name_to_info, sequence_to_count, sequence_to_example_p,
           placement_i, nm_i, output_jplace_io>>

\* The arguments and locals of run.
runvars == <<kwargs, sample_names, sample_to_gpkg_to_input_sequences, pair_i,
             otu_table_object, steps>>

(***************************************************************************)
(* Bounds of the model.                                                    *)
(***************************************************************************)
MaxReads == 3

ReadIds == 1..MaxReads

\* The name of read i as the aggregator sees it (no "_<digits>" decoration).
ReadName(i) == <<i, 0>>

(***************************************************************************)
(* Input domains.                                                          *)
(***************************************************************************)
\* What a read contributes besides its name: s.aligned_sequence,
\* s.aligned_length and s.coverage_increment() (in integer units).
WindowKinds ==
    { [aligned_sequence |-> "ACGT", aligned_length |-> 4, coverage |-> 2],
      [aligned_sequence |-> "ACGT", aligned_length |-> 3, coverage |-> 1],
      [aligned_sequence |-> "AC-T", aligned_length |-> 3, coverage |-> 1] }

EmptyString == <<>>

\* None, as DiamondResultParser may return it (pipe.py:369 tests for it).
None == <<"None">>

TaxStrings ==
    { <<"a", ";", "x">>, <<"a", ";", " ", "x">>, <<"a">>, <<"b">> }

\* The values a taxonomy lookup may give for a read.  run hands a
\* DiamondResultParser over only with use_first (pipe.py:202-204) and a
\* TaxonomyFile, whose values are strings, otherwise (pipe.py:210-211).
TaxValues(first) == IF first THEN TaxStrings \cup {None} ELSE TaxStrings

\* The window sequences and the taxonomy labels the inputs can give rise to,
\* each in a reference order that dict_order follows or reverses.
WindowOrder == << "ACGT", "AC-T" >>

LabelOrder == << <<>>, <<"a">>, <<"b">>, <<"x">> >>

(***************************************************************************)
(* Python primitives.                                                      *)
(***************************************************************************)
RECURSIVE SplitFrom(_, _, _)
\* str.split(';') from position i on, cur being the field read so far
SplitFrom(s, i, cur) ==
    IF i > Len(s) THEN << cur >>
    ELSE IF s[i] = ";" THEN << cur >> \o SplitFrom(s, i + 1, << >>)
    ELSE SplitFrom(s, i + 1, Append(cur, s[i]))

\* tax_string.split(';')
Split(s) == SplitFrom(s, 1, << >>)

RECURSIVE LStrip(_)
LStrip(s) == IF Len(s) > 0 /\ s[1] = " " THEN LStrip(Tail(s)) ELSE s

RECURSIVE RStrip(_)
RStrip(s) ==
    IF Len(s) > 0 /\ s[Len(s)] = " " THEN RStrip(SubSeq(s, 1, Len(s) - 1)) ELSE s

\* tax.strip()
Strip(s) == RStrip(LStrip(s))

RECURSIVE Join(_)
\* '; '.join(fields)
Join(fields) ==
    IF Len(fields) = 0 THEN EmptyString
    ELSE IF Len(fields) = 1 THEN fields[1]
    ELSE fields[1] \o << ";", " " >> \o Join(Tail(fields))

\* The orders in which a run may iterate its dicts: a dict's order is fixed
\* by the hashes of its keys, not by the order of insertion.
DictOrders == {"fwd", "rev"}

\* The place of key k in the reference order.
Rank(order, k) == CHOOSE i \in 1..Len(order) : order[i] = k

\* Whether a dict of a run whose iteration order is d iterates key a no later
\* than key b.
IterBefore(d, order, a, b) ==
    IF d = "fwd" THEN Rank(order, a) <= Rank(order, b)
    ELSE Rank(order, a) >= Rank(order, b)

RECURSIVE IterKeys(_, _, _)
\* dict.iteritems() / dict.items(): the keys in the run's iteration order
IterKeys(d, order, keys) ==
    IF keys = {} THEN << >>
    ELSE LET k == CHOOSE a \in keys : \A b \in keys : IterBefore(d, order, a, b)
         IN  << k >> \o IterKeys(d, order, keys \ {k})

\* d[k] = v
DictSet(d, k, v) ==
    [x \in (DOMAIN d) \cup {k} |-> IF x = k THEN v ELSE d[x]]

\* The outcome of a call: a value, or the exception it raised.
Return(v) == [ok |-> TRUE, val |-> v]

Raise(e) == [ok |-> FALSE, exc |-> e]

(***************************************************************************)
(* _seqs_to_counts_and_taxonomy, the grouping loop (pipe.py:337-355).      *)
(***************************************************************************)
\* CollectedInfo.__init__
CollectedInfo ==
    [count |-> 0, taxonomies |-> << >>, names |-> << >>, coverage |-> 0,
     aligned_lengths |-> << >>]

\* `if taxonomies:` - a dict is true when it holds at least one entry
Truthy(d) == DOMAIN d # {}

\* taxonomies[s.name], '' on KeyError
LookupTax(taxs, name) ==
    IF name \in DOMAIN taxs THEN taxs[name] ELSE EmptyString

\* collected_info.taxonomies after this read
CollectTaxonomies(taxs, collected, tax) ==
    IF Truthy(taxs) THEN Append(collected, tax) ELSE collected

\* CollectOne with the group started afresh for every read.
CollectOneFresh(m, taxs, s) ==
    DictSet(m, s.aligned_sequence,
        [count           |-> 1,
         taxonomies      |-> CollectTaxonomies(taxs, << >>, LookupTax(taxs, s.name)),
         names           |-> << s.name >>,
         coverage        |-> s.coverage,
         aligned_lengths |-> << s.aligned_length >>])

\* One pass of the loop body for SequenceWindow s.
CollectOne(m, taxs, s) ==
    LET tax == LookupTax(taxs, s.name)
        ci  == IF s.aligned_sequence \in DOMAIN m
               THEN m[s.aligned_sequence] ELSE CollectedInfo
    IN  DictSet(m, s.aligned_sequence,
            [count           |-> ci.count + 1,
             taxonomies      |-> CollectTaxonomies(taxs, ci.taxonomies, tax),
             names           |-> Append(ci.names, s.name),
             coverage        |-> ci.coverage + s.coverage,
             aligned_lengths |-> Append(ci.aligned_lengths, s.aligned_length)])

RECURSIVE CollectFrom(_, _, _, _)
CollectFrom(seqs, taxs, i, m) ==
    IF i > Len(seqs) THEN m
    ELSE CollectFrom(seqs, taxs, i + 1, CollectOne(m, taxs, seqs[i]))

\* seq_to_collected_info after the loop
CollectAll(seqs, taxs) == CollectFrom(seqs, taxs, 1, << >>)

(***************************************************************************)
(* _median_taxonomy (pipe.py:381-406).                                     *)
(***************************************************************************)
\* levels_to_counts after counting label tax at level i (pipe.py:386-391)
CountLabel(levels, i, tax) ==
    LET grown == IF i > Len(levels) THEN Append(levels, << >>) ELSE levels
        old   == IF tax \in DOMAIN grown[i] THEN grown[i][tax] ELSE 0
    IN  [grown EXCEPT ![i] = DictSet(grown[i], tax, old + 1)]

RECURSIVE CountFields(_, _, _)
\* the inner loop over enumerate(tax_string.split(';')), from field i on
CountFields(levels, fields, i) ==
    IF i > Len(fields) THEN levels
    ELSE CountFields(CountLabel(levels, i, Strip(fields[i])), fields, i + 1)

RECURSIVE LevelsToCounts(_, _, _)
\* the outer loop over taxonomies, from taxonomy j on (pipe.py:382-391)
LevelsToCounts(taxs, j, levels) ==
    IF j > Len(taxs) THEN levels
    ELSE LevelsToCounts(taxs, j + 1, CountFields(levels, Split(taxs[j]), 1))

RECURSIVE MaxFrom(_, _, _, _)
\* the loop over level_counts.iteritems() (pipe.py:396-401)
MaxFrom(level_counts, keys, i, best) ==
    IF i > Len(keys) THEN best
    ELSE MaxFrom(level_counts, keys, i + 1,
             IF level_counts[keys[i]] > best.max_count
             THEN [max_count |-> level_counts[keys[i]], max_tax |-> keys[i]]
             ELSE best)

MaxOfLevel(d, level_counts) ==
    MaxFrom(level_counts, IterKeys(d, LabelOrder, DOMAIN level_counts), 1,
            [max_count |-> 0, max_tax |-> None])

\* KeepLevel with the boundary excluded.
KeepLevelStrict(max_count, ntax) == 2 * max_count > ntax

\* float(max_count) / len(taxonomies) >= 0.5  (pipe.py:402)
KeepLevel(max_count, ntax) == 2 * max_count >= ntax

RECURSIVE MedianFrom(_, _, _, _)
\* the loop over levels_to_counts with its break (pipe.py:394-405)
MedianFrom(d, levels, i, ntax) ==
    IF i > Len(levels) THEN << >>
    ELSE LET best == MaxOfLevel(d, levels[i])
         IN  IF KeepLevel(best.max_count, ntax)
             THEN << best.max_tax >> \o MedianFrom(d, levels, i + 1, ntax)
             ELSE << >>

_median_taxonomy(d, taxs) ==
    Join(MedianFrom(d, LevelsToCounts(taxs, 1, << >>), 1, Len(taxs)))

(***************************************************************************)
(* _seqs_to_counts_and_taxonomy, the emitting loop (pipe.py:357-377).      *)
(***************************************************************************)
\* FirstTaxonomy taking the last collected taxonomy.
FirstTaxonomyLast(taxs) ==
    IF Len(taxs) = 0 THEN Raise("IndexError")
    ELSE Return(IF taxs[Len(taxs)] = None THEN EmptyString ELSE taxs[Len(taxs)])

\* collected_info.taxonomies[0], '' when it is None (pipe.py:368-369)
FirstTaxonomy(taxs) ==
    IF Len(taxs) = 0 THEN Raise("IndexError")
    ELSE Return(IF taxs[1] = None THEN EmptyString ELSE taxs[1])

\* tax of one group (pipe.py:367-371)
ResolveTaxonomy(d, first, taxs) ==
    IF first THEN FirstTaxonomy(taxs) ELSE Return(_median_taxonomy(d, taxs))

\* Info.__init__ (pipe.py:357-364, 372-377)
Info(seq, ci, tax) ==
    [seq |-> seq, count |-> ci.count, taxonomy |-> tax, names |-> ci.names,
     coverage |-> ci.coverage, aligned_lengths |-> ci.aligned_lengths]

RECURSIVE YieldFrom(_, _, _, _, _, _)
\* the generator, drained by list() (pipe.py:214): the Info records of the
\* groups from key i on, or the exception one of them raised
YieldFrom(d, m, first, keys, i, out) ==
    IF i > Len(keys) THEN Return(out)
    ELSE LET tax == ResolveTaxonomy(d, first, m[keys[i]].taxonomies)
         IN  IF tax.ok
             THEN YieldFrom(d, m, first, keys, i + 1,
                      Append(out, Info(keys[i], m[keys[i]], tax.val)))
             ELSE tax

\* the records a run whose dicts iterate in order d yields
YieldAll(d, m, first) ==
    YieldFrom(d, m, first, IterKeys(d, WindowOrder, DOMAIN m), 1, << >>)

(***************************************************************************)
(* The aggregator as a state machine.                                      *)
(***************************************************************************)
\* The lists of n SequenceWindow records; read i is the i-th encountered.
SequencesOfLen(n) ==
    { [i \in 1..n |-> [name            |-> ReadName(i),
                       aligned_sequence |-> k[i].aligned_sequence,
                       aligned_length   |-> k[i].aligned_length,
                       coverage         |-> k[i].coverage]] :
      k \in [1..n -> WindowKinds] }

\* The lookups: entries for any of the reads, a read of this call or not.
Lookups(first) ==
    UNION { [{ReadName(i) : i \in D} -> TaxValues(first)] : D \in SUBSET ReadIds }

\* The function is called on its own: run's variables play no part.
RunNotStarted ==
    /\ kwargs = [assignment_method |-> "pplacer", output_jplace |-> FALSE]
    /\ sample_names = << >>
    /\ sample_to_gpkg_to_input_sequences = {}
    /\ pair_i = 1
    /\ otu_table_object = << >>
    /\ steps = << >>

Init ==
    /\ \E n \in 0..MaxReads : sequences \in SequencesOfLen(n)
    /\ use_first_taxonomy \in BOOLEAN
    /\ taxonomies \in Lookups(use_first_taxonomy)
    /\ dict_order \in DictOrders
    /\ pc = "collect"
    /\ raised = "none"
    /\ seq_to_collected_info = << >>
    /\ infos = << >>
    /\ jplace = << >>
    /\ name_to_info = << >>
    /\ sequence_to_count = << >>
    /\ sequence_to_example_p = << >>
    /\ placement_i = 1
    /\ nm_i = 1
    /\ output_jplace_io = << >>
    /\ RunNotStarted

\* pipe.py:337-355
Collect ==
    /\ pc = "collect"
    /\ seq_to_collected_info' = CollectAll(sequences, taxonomies)
    /\ pc' = "yield"
    /\ UNCHANGED <<sequences, taxonomies, use_first_taxonomy, dict_order,
                   raised, infos>>
    /\ UNCHANGED <<jvars, runvars>>

\* pipe.py:366-377 under list() of pipe.py:214: every group yields
YieldInfos ==
    /\ pc = "yield"
    /\ YieldAll(dict_order, seq_to_collected_info, use_first_taxonomy).ok
    /\ infos' = YieldAll(dict_order, seq_to_collected_info, use_first_taxonomy).val
    /\ pc' = "yielded"
    /\ UNCHANGED <<sequences, taxonomies, use_first_taxonomy, dict_order,
                   raised, seq_to_collected_info>>
    /\ UNCHANGED <<jvars, runvars>>

\* pipe.py:368: the generator raises, list() never returns
YieldRaises ==
    /\ pc = "yield"
    /\ ~YieldAll(dict_order, seq_to_collected_info, use_first_taxonomy).ok
    /\ raised' = YieldAll(dict_order, seq_to_collected_info, use_first_taxonomy).exc
    /\ pc' = "raised"
    /\ UNCHANGED <<sequences, taxonomies, use_first_taxonomy, dict_order,
                   seq_to_collected_info, infos>>
    /\ UNCHANGED <<jvars, runvars>>

Next == Collect \/ YieldInfos \/ YieldRaises

vars == <<sequences, taxonomies, use_first_taxonomy, dict_order, pc, raised,
          seq_to_collected_info, infos, jplace, name_to_info,
          sequence_to_count, sequence_to_example_p, placement_i, nm_i,
          output_jplace_io, kwargs, sample_names,
          sample_to_gpkg_to_input_sequences, pair_i, otu_table_object, steps>>

Spec == Init /\ [][Next]_vars

(***************************************************************************)
(* _write_jplace_from_infos (pipe.py:408-450).                             *)
(***************************************************************************)
\* The one jplace version the code accepts (pipe.py:411).
SupportedVersion == 3

\* The number of "_<digits>" groups OrfM appends to a read name.
OrfmGroups == 3

\* Bounds of the placement documents.
MaxJplaceReads == 2

MaxPairs == 2

\* What an nm pair says of a read: the number of trailing "_<digits>" groups
\* its name carries (none; one; two, of which the regex leaves one; the OrfM
\* decoration and one more) and its multiplicity.
PairKinds ==
    { [groups |-> 0, multiplicity |-> 1], [groups |-> 1, multiplicity |-> 2],
      [groups |-> 2, multiplicity |-> 1], [groups |-> 4, multiplicity |-> 2] }

Versions == {2, 3}

\* VersionSupported raising only for later versions.
VersionAtMostSupported(version) == version <= SupportedVersion

\* the test of pipe.py:411, negated
VersionSupported(version) == version = SupportedVersion

\* orfm_utils.un_orfm_name(name): the name without its OrfM decoration
un_orfm_name(name) ==
    IF name[2] >= OrfmGroups THEN << name[1], name[2] - OrfmGroups >> ELSE name

\* another_regex.sub('', name), another_regex being u'_\d+$' (pipe.py:421)
another_regex_sub(name) ==
    IF name[2] >= 1 THEN << name[1], name[2] - 1 >> ELSE name

\* real_name (pipe.py:431)
RealName(name) == another_regex_sub(un_orfm_name(name))

RECURSIVE IndexNames(_, _, _, _)
\* the loop over info.names (pipe.py:416-417), from name j on
IndexNames(index, info, j, n) ==
    IF j > n THEN index
    ELSE IndexNames(DictSet(index, info.names[j], info), info, j + 1, n)

RECURSIVE IndexInfos(_, _, _)
\* the loop over infos (pipe.py:415-417), from record a on
IndexInfos(index, list, a) ==
    IF a > Len(list) THEN index
    ELSE IndexInfos(IndexNames(index, list[a], 1, Len(list[a].names)), list, a + 1)

\* name_to_info (pipe.py:414-417)
NameToInfo(list) == IndexInfos(<< >>, list, 1)

\* sequence_to_count after one pair (pipe.py:435-438)
AddCount(counts, sequence, count) ==
    IF sequence \in DOMAIN counts
    THEN [counts EXCEPT ![sequence] = @ + count]
    ELSE DictSet(counts, sequence, count)

\* IsExample holding for every contributor of the OTU.
IsExampleAny(real_name, info) ==
    \E j \in DOMAIN info.names : real_name = info.names[j]

\* whether this pair's placement becomes the example of its OTU (pipe.py:440)
IsExample(real_name, info) == real_name = info.names[1]

\* sequence_to_example_p after one pair (pipe.py:440-441)
SetExample(examples, real_name, info, pdata) ==
    IF IsExample(real_name, info)
    THEN DictSet(examples, info.seq, pdata) ELSE examples

\* new_placements (pipe.py:443-447)
NewPlacements(examples, counts) ==
    [sequence \in DOMAIN examples |->
        [nm |-> << << sequence, counts[sequence] >> >>,
         p  |-> examples[sequence]]]

\* jplace after jplace['placements'] = new_placements (pipe.py:449)
Rewritten(doc, examples, counts) ==
    [doc EXCEPT !.placements = NewPlacements(examples, counts)]

\* What json.dump writes for the document (pipe.py:450): its placements, a
\* dict since pipe.py:443, become a JSON object; a list would have become a
\* JSON array.
json_dump(doc) ==
    [doc EXCEPT !.placements = [json |-> "object", value |-> @]]

(***************************************************************************)
(* The placement documents.                                                *)
(***************************************************************************)
\* The elements of an nm list over reads 1..n: [name, multiplicity] pairs
\* and one element that is not a pair.
NmElements(n) ==
    { << << i, k.groups >>, k.multiplicity >> : i \in 1..n, k \in PairKinds }
    \cup { << << 1, 0 >> >> }

\* The placements, the j-th of the document, that hold w nm elements; one
\* with no nm field or an empty nm list counts as holding one.
PlacementsOfWeight(n, w, j) ==
    { [nm |-> nm, p |-> << "edge", j >>] : nm \in [1..w -> NmElements(n)] }
    \cup (IF w = 1
          THEN { [p |-> << "edge", j >>], [nm |-> << >>, p |-> << "edge", j >>] }
          ELSE {})

RECURSIVE PlacementLists(_, _, _)
\* The placement lists of at most w nm elements, the first being the j-th.
PlacementLists(n, w, j) ==
    { << >> } \cup
    UNION { UNION { { << pl >> \o rest : rest \in PlacementLists(n, w - v, j + 1) } :
                    pl \in PlacementsOfWeight(n, v, j) } :
            v \in 1..w }

JplaceDocuments(n) ==
    { [version |-> v, tree |-> "tree", placements |-> pls] :
      v \in Versions, pls \in PlacementLists(n, MaxPairs, 1) }

\* run calls the rewriter with the records of a non-empty list of windows
\* (pipe.py:190-192, 214, 237-242); the taxonomies play no part in it.
InitJplace ==
    /\ \E n \in 1..MaxJplaceReads :
          /\ sequences \in
                { q \in SequencesOfLen(n) : \A i \in 1..n : q[i].coverage = 1 }
          /\ jplace \in JplaceDocuments(n)
    /\ use_first_taxonomy = FALSE
    /\ taxonomies = << >>
    /\ dict_order = "fwd"
    /\ seq_to_collected_info = CollectAll(sequences, taxonomies)
    /\ infos = YieldAll(dict_order, seq_to_collected_info, use_first_taxonomy).val
    /\ pc = "load"
    /\ raised = "none"
    /\ name_to_info = << >>
    /\ sequence_to_count = << >>
    /\ sequence_to_example_p = << >>
    /\ placement_i = 1
    /\ nm_i = 1
    /\ output_jplace_io = << >>
    /\ RunNotStarted

\* The placement and the nm element the loops are at.
Placement == jplace.placements[placement_i]

InPlacements == pc = "placements" /\ placement_i <= Len(jplace.placements)

InNm == InPlacements /\ "nm" \in DOMAIN Placement /\ nm_i <= Len(Placement.nm)

Fail(e) ==
    /\ pc' = "raised"
    /\ raised' = e
    /\ UNCHANGED <<name_to_info, sequence_to_count, sequence_to_example_p,
                   placement_i, nm_i, output_jplace_io>>

\* pipe.py:410-412
VersionRaises ==
    /\ pc = "load"
    /\ ~VersionSupported(jplace.version)
    /\ Fail("Exception: jplace version")
    /\ UNCHANGED <<runvars, aggvars, jplace>>

\* pipe.py:410-423
BuildIndex ==
    /\ pc = "load"
    /\ VersionSupported(jplace.version)
    /\ name_to_info' = NameToInfo(infos)
    /\ pc' = "placements"
    /\ UNCHANGED <<runvars, aggvars, jplace, raised, sequence_to_count,
                   sequence_to_example_p, placement_i, nm_i, output_jplace_io>>

\* pipe.py:425-426
NmMissing ==
    /\ InPlacements
    /\ "nm" \notin DOMAIN Placement
    /\ Fail("Exception: jplace format, placement")
    /\ UNCHANGED <<runvars, aggvars, jplace>>

\* pipe.py:428-429
PairMalformed ==
    /\ InNm
    /\ Len(Placement.nm[nm_i]) # 2
    /\ Fail("Exception: jplace format, nm")
    /\ UNCHANGED <<runvars, aggvars, jplace>>

\* NameAbsent with the KeyError swallowed and the pair skipped.
NameAbsentSkipped ==
    /\ InNm
    /\ Len(Placement.nm[nm_i]) = 2
    /\ RealName(Placement.nm[nm_i][1]) \notin DOMAIN name_to_info
    /\ nm_i' = nm_i + 1
    /\ UNCHANGED <<runvars, aggvars, jplace, pc, raised, name_to_info, placement_i,
                   sequence_to_count, sequence_to_example_p, output_jplace_io>>

\* pipe.py:430-432
NameAbsent ==
    /\ InNm
    /\ Len(Placement.nm[nm_i]) = 2
    /\ RealName(Placement.nm[nm_i][1]) \notin DOMAIN name_to_info
    /\ Fail("KeyError")
    /\ UNCHANGED <<runvars, aggvars, jplace>>

\* pipe.py:430-441
CountPair ==
    /\ InNm
    /\ Len(Placement.nm[nm_i]) = 2
    /\ LET name      == Placement.nm[nm_i][1]
           count     == Placement.nm[nm_i][2]
           real_name == RealName(name)
       IN  /\ real_name \in DOMAIN name_to_info
           /\ LET info == name_to_info[real_name]
              IN  /\ sequence_to_count' =
                        AddCount(sequence_to_count, info.seq, count)
                  /\ sequence_to_example_p' =
                        SetExample(sequence_to_example_p, real_name, info,
                                   Placement.p)
    /\ nm_i' = nm_i + 1
    /\ UNCHANGED <<runvars, aggvars, jplace, pc, raised, name_to_info, placement_i,
                   output_jplace_io>>

\* pipe.py:424, 427: the nm list is exhausted, on to the next placement
NextPlacement ==
    /\ InPlacements
    /\ "nm" \in DOMAIN Placement
    /\ nm_i > Len(Placement.nm)
    /\ placement_i' = placement_i + 1
    /\ nm_i' = 1
    /\ UNCHANGED <<runvars, aggvars, jplace, pc, raised, name_to_info,
                   sequence_to_count, sequence_to_example_p, output_jplace_io>>

\* pipe.py:443-450
WriteJplace ==
    /\ pc = "placements"
    /\ placement_i > Len(jplace.placements)
    /\ output_jplace_io' =
          Append(output_jplace_io,
                 json_dump(Rewritten(jplace, sequence_to_example_p,
                                     sequence_to_count)))
    /\ pc' = "written"
    /\ UNCHANGED <<runvars, aggvars, jplace, raised, name_to_info, sequence_to_count,
                   sequence_to_example_p, placement_i, nm_i>>

NextJplace ==
    \/ VersionRaises
    \/ BuildIndex
    \/ NmMissing
    \/ PairMalformed
    \/ NameAbsent
    \/ CountPair
    \/ NextPlacement
    \/ WriteJplace

SpecJplace == InitJplace /\ [][NextJplace]_vars

(***************************************************************************)
(* run (pipe.py:25-254): the search, the steps that follow it and the loop *)
(* over the (sample, package) pairs, which calls the aggregator and the    *)
(* rewriter.  known_otu_tables is not given.                               *)
(***************************************************************************)
MaxSamples == 2

\* The graftm package basenames of hmms (pipe.py:51), in its order.
hmms == << "geneA", "geneB" >>

\* The arguments that steer run: singlem_assignment_method and whether
\* output_jplace is given (pipe.py:31-32).
KwargsSet ==
    [assignment_method : {"pplacer", "diamond_example"}, output_jplace : BOOLEAN]

\* sample_to_protein_hit_files.keys() of a search that found n samples.
SampleNames(n) == [i \in 1..n |-> i]

\* The (sample, package) pairs in the order of the loops of pipe.py:170-172.
NumPairs == Len(sample_names) * Len(hmms)

PairAt(k) ==
    << sample_names[((k - 1) \div Len(hmms)) + 1],
       hmms[((k - 1) % Len(hmms)) + 1] >>

AllPairs == { PairAt(k) : k \in 1..NumPairs }

\* What the loop may find for a pair: aligned_seqs (pipe.py:184) with no
\* window or with one full-length window, the taxonomy lookup read from
\* tax_file and the placement document of input_jplace_file.
RunSequences ==
    { << >> } \cup { q \in SequencesOfLen(1) : q[1].aligned_length = 4 }

RunLookups(first) ==
    { << >> } \cup
    [{ReadName(1)} -> IF first THEN { << "a" >>, None } ELSE { << "a" >> }]

RunDocuments ==
    { [version |-> v, tree |-> "tree", placements |-> pls] :
      v \in Versions, pls \in PlacementLists(1, 1, 1) }

\* use_first of pipe.py:202-204, 211
UseFirst(method) == method = "diamond_example"

\* to_print of one Info record (pipe.py:216-235), by field name
Row(pair, info) ==
    [gene                |-> pair[2],
     sample              |-> pair[1],
     sequence            |-> info.seq,
     num_hits            |-> info.count,
     coverage            |-> info.coverage,
     taxonomy            |-> info.taxonomy,
     read_names          |-> info.names,
     nucleotides_aligned |-> info.aligned_lengths,
     taxonomy_by_known   |-> FALSE]

Rows(pair, list) == [k \in 1..Len(list) |-> Row(pair, list[k])]

\* list(self._seqs_to_counts_and_taxonomy(...)) of pipe.py:214
Aggregated(seqs, taxs, first) ==
    YieldAll(dict_order, CollectAll(seqs, taxs), first)

Step(name) == [step |-> name]

PairStep(name, pair) == [step |-> name, pair |-> pair]

InitRun ==
    /\ kwargs \in KwargsSet
    /\ sample_names = << >>
    /\ sample_to_gpkg_to_input_sequences = {}
    /\ pair_i = 1
    /\ otu_table_object = << >>
    /\ steps = << >>
    /\ pc = "search"
    /\ raised = "none"
    /\ sequences = << >>
    /\ taxonomies = << >>
    /\ use_first_taxonomy = FALSE
    /\ dict_order = "fwd"
    /\ seq_to_collected_info = << >>
    /\ infos = << >>
    /\ jplace = << >>
    /\ name_to_info = << >>
    /\ sequence_to_count = << >>
    /\ sequence_to_example_p = << >>
    /\ placement_i = 1
    /\ nm_i = 1
    /\ output_jplace_io = << >>

\* pipe.py:101-112 with at least one sample: on to the alignment
SearchFindsSamples ==
    /\ pc = "search"
    /\ \E n \in 1..MaxSamples : sample_names' = SampleNames(n)
    /\ steps' = Append(steps, Step("search"))
    /\ pc' = "align"
    /\ UNCHANGED <<aggvars, jvars, raised, kwargs,
                   sample_to_gpkg_to_input_sequences, pair_i, otu_table_object>>

\* pipe.py:101-106 with no sample: the arguments of logging.debug are
\* evaluated before the test of pipe.py:107, and sample_names[0] of an empty
\* list raises IndexError; pipe.py:108-110 is never reached.
SearchFindsNone ==
    /\ pc = "search"
    /\ sample_names' = SampleNames(0)
    /\ steps' = Append(steps, Step("search"))
    /\ pc' = "raised"
    /\ raised' = "IndexError"
    /\ UNCHANGED <<aggvars, jvars, kwargs, sample_to_gpkg_to_input_sequences,
                   pair_i, otu_table_object>>

\* pipe.py:114
Align ==
    /\ pc = "align"
    /\ steps' = Append(steps, Step("align"))
    /\ pc' = "extract"
    /\ UNCHANGED <<aggvars, jvars, raised, kwargs, sample_names,
                   sample_to_gpkg_to_input_sequences, pair_i, otu_table_object>>

\* pipe.py:117-119, 275-305: the pairs with at least one window get a file
ExtractRelevantReads ==
    /\ pc = "extract"
    /\ sample_to_gpkg_to_input_sequences' \in SUBSET AllPairs
    /\ steps' = Append(steps, Step("extract"))
    /\ pc' = "assign"
    /\ UNCHANGED <<aggvars, jvars, raised, kwargs, sample_names, pair_i,
                   otu_table_object>>

\* pipe.py:121-167
TaxonomicAssignment ==
    /\ pc = "assign"
    /\ steps' = Append(steps, Step("assign"))
    /\ otu_table_object' = << >>
    /\ pair_i' = 1
    /\ pc' = "pairs"
    /\ UNCHANGED <<aggvars, jvars, raised, kwargs, sample_names,
                   sample_to_gpkg_to_input_sequences>>

\* The pair the loops are at.
InPairs == pc = "pairs" /\ pair_i <= NumPairs

Pair == PairAt(pair_i)

\* What the loop found for a pair: len(aligned_seqs) (pipe.py:184-193).
WindowsStep(pair, n) == [step |-> "windows", pair |-> pair, found |-> n]

\* pipe.py:173-174: the pair has no file of extracted reads and is passed over
PairNotExtracted ==
    /\ InPairs
    /\ Pair \notin sample_to_gpkg_to_input_sequences
    /\ pair_i' = pair_i + 1
    /\ UNCHANGED <<aggvars, jvars, pc, raised, kwargs, sample_names,
                   sample_to_gpkg_to_input_sequences, otu_table_object, steps>>

\* PairEmpty leaving the loops, as a break would.
PairEmptyBreaks ==
    /\ InPairs
    /\ Pair \in sample_to_gpkg_to_input_sequences
    /\ sequences' = << >>
    /\ steps' = Append(steps, WindowsStep(Pair, 0))
    /\ pair_i' = NumPairs + 1
    /\ UNCHANGED <<taxonomies, use_first_taxonomy, dict_order,
                   seq_to_collected_info, infos, jvars, pc, raised, kwargs,
                   sample_names, sample_to_gpkg_to_input_sequences,
                   otu_table_object>>

\* pipe.py:175-192: no window for the pair, on to the next pair
PairEmpty ==
    /\ InPairs
    /\ Pair \in sample_to_gpkg_to_input_sequences
    /\ sequences' = << >>
    /\ steps' = Append(steps, WindowsStep(Pair, 0))
    /\ pair_i' = pair_i + 1
    /\ UNCHANGED <<taxonomies, use_first_taxonomy, dict_order,
                   seq_to_collected_info, infos, jvars, pc, raised, kwargs,
                   sample_names, sample_to_gpkg_to_input_sequences,
                   otu_table_object>>

\* pipe.py:175-209: windows, but no tax file: on to the next pair
PairWithoutTaxFile ==
    /\ InPairs
    /\ Pair \in sample_to_gpkg_to_input_sequences
    /\ ~UseFirst(kwargs.assignment_method)
    /\ sequences' \in RunSequences \ { << >> }
    /\ steps' = Append(steps, WindowsStep(Pair, Len(sequences')))
    /\ pair_i' = pair_i + 1
    /\ UNCHANGED <<taxonomies, use_first_taxonomy, dict_order,
                   seq_to_collected_info, infos, jvars, pc, raised, kwargs,
                   sample_names, sample_to_gpkg_to_input_sequences,
                   otu_table_object>>

\* pipe.py:175-214, the aggregator called with this pair's windows and lookup
CallAggregator(seqs, taxs) ==
    /\ InPairs
    /\ Pair \in sample_to_gpkg_to_input_sequences
    /\ seqs \in RunSequences \ { << >> }
    /\ taxs \in RunLookups(UseFirst(kwargs.assignment_method))
    /\ sequences' = seqs
    /\ taxonomies' = taxs
    /\ use_first_taxonomy' = UseFirst(kwargs.assignment_method)
    /\ seq_to_collected_info' = CollectAll(seqs, taxs)
    /\ UNCHANGED <<dict_order, kwargs, sample_names,
                   sample_to_gpkg_to_input_sequences>>

\* pipe.py:175-214: the aggregator raises and run with it
PairAggregatorRaises ==
    \E seqs \in RunSequences, taxs \in RunLookups(UseFirst(kwargs.assignment_method)) :
        LET result == Aggregated(seqs, taxs, UseFirst(kwargs.assignment_method))
        IN  /\ CallAggregator(seqs, taxs)
            /\ ~result.ok
            /\ raised' = result.exc
            /\ pc' = "raised"
            /\ steps' = Append(steps, WindowsStep(Pair, Len(seqs)))
            /\ UNCHANGED <<infos, jvars, pair_i, otu_table_object>>

\* pipe.py:175-235 without output_jplace: the pair's rows are added
PairProcessed ==
    \E seqs \in RunSequences, taxs \in RunLookups(UseFirst(kwargs.assignment_method)) :
        LET result == Aggregated(seqs, taxs, UseFirst(kwargs.assignment_method))
        IN  /\ CallAggregator(seqs, taxs)
            /\ result.ok
            /\ ~kwargs.output_jplace
            /\ infos' = result.val
            /\ otu_table_object' = otu_table_object \o Rows(Pair, result.val)
            /\ steps' = Append(steps, WindowsStep(Pair, Len(seqs)))
            /\ pair_i' = pair_i + 1
            /\ UNCHANGED <<jvars, pc, raised>>

\* pipe.py:175-242 with output_jplace: the pair's rows are added and the
\* rewriter is called on the pair's placement document and a new output file
PairProcessedRewrite ==
    \E seqs \in RunSequences, taxs \in RunLookups(UseFirst(kwargs.assignment_method)) :
        LET result == Aggregated(seqs, taxs, UseFirst(kwargs.assignment_method))
        IN  /\ CallAggregator(seqs, taxs)
            /\ result.ok
            /\ kwargs.output_jplace
            /\ infos' = result.val
            /\ otu_table_object' = otu_table_object \o Rows(Pair, result.val)
            /\ steps' = steps \o << WindowsStep(Pair, Len(seqs)),
                                    PairStep("rewrite", Pair) >>
            /\ jplace' \in RunDocuments
            /\ name_to_info' = << >>
            /\ sequence_to_count' = << >>
            /\ sequence_to_example_p' = << >>
            /\ placement_i' = 1
            /\ nm_i' = 1
            /\ output_jplace_io' = << >>
            /\ pc' = "load"
            /\ UNCHANGED <<raised, pair_i>>

\* pipe.py:241-242: the rewriter has returned, on to the next pair
RewriteReturns ==
    /\ pc = "written"
    /\ pc' = "pairs"
    /\ pair_i' = pair_i + 1
    /\ UNCHANGED <<aggvars, jvars, raised, kwargs, sample_names,
                   sample_to_gpkg_to_input_sequences, otu_table_object, steps>>

\* pipe.py:244-254: the loops are over; the tables are written, return_cleanly
WriteOutputs ==
    /\ pc = "pairs"
    /\ pair_i > NumPairs
    /\ steps' = steps \o << Step("outputs"), Step("return_cleanly") >>
    /\ pc' = "returned"
    /\ UNCHANGED <<aggvars, jvars, raised, kwargs, sample_names,
                   sample_to_gpkg_to_input_sequences, pair_i, otu_table_object>>

NextRun ==
    \/ SearchFindsSamples
    \/ SearchFindsNone
    \/ Align
    \/ ExtractRelevantReads
    \/ TaxonomicAssignment
    \/ PairNotExtracted
    \/ PairEmpty
    \/ PairWithoutTaxFile
    \/ PairAggregatorRaises
    \/ PairProcessed
    \/ PairProcessedRewrite
    \/ VersionRaises
    \/ BuildIndex
    \/ NmMissing
    \/ PairMalformed
    \/ NameAbsent
    \/ CountPair
    \/ NextPlacement
    \/ WriteJplace
    \/ RewriteReturns
    \/ WriteOutputs

SpecRun == InitRun /\ [][NextRun]_vars

(***************************************************************************)
(* Vocabulary of the properties.                                           *)
(***************************************************************************)
Range(f) == { f[x] : x \in DOMAIN f }

RECURSIVE SumCounts(_)
\* The sum of the count fields of a list of Info records.
SumCounts(list) ==
    IF Len(list) = 0 THEN 0 ELSE list[1].count + SumCounts(Tail(list))

\* The call of _seqs_to_counts_and_taxonomy is over: list() returned or raised.
AggregatorOver == pc \in {"yielded", "raised"}

\* Reads i and j of the input sit in one group of seq_to_collected_info.
SameGroup(i, j) ==
    \E k \in DOMAIN seq_to_collected_info :
        /\ sequences[i].name \in Range(seq_to_collected_info[k].names)
        /\ sequences[j].name \in Range(seq_to_collected_info[k].names)

\* Reads i and j of the input sit in one emitted Info record.
SameInfo(i, j) ==
    \E a \in DOMAIN infos :
        /\ sequences[i].name \in Range(infos[a].names)
        /\ sequences[j].name \in Range(infos[a].names)

RECURSIVE StripEach(_)
StripEach(raw) ==
    IF Len(raw) = 0 THEN << >>
    ELSE << Strip(raw[1]) >> \o StripEach(Tail(raw))

\* The rank labels of a taxonomy string.
Fields(t) == StripEach(Split(t))

RECURSIVE TaxesFrom(_, _)
TaxesFrom(names, j) ==
    IF j > Len(names) THEN << >>
    ELSE << LookupTax(taxonomies, names[j]) >> \o TaxesFrom(names, j + 1)

\* The taxonomy strings of the members of an emitted record, in member order,
\* as the lookup gives them (none are collected when the lookup is empty).
GroupTaxes(info) ==
    IF Truthy(taxonomies) THEN TaxesFrom(info.names, 1) ELSE << >>

RECURSIVE FieldsOfAll(_)
\* The rank labels of each taxonomy string of a list.
FieldsOfAll(taxs) ==
    IF Len(taxs) = 0 THEN << >>
    ELSE << Fields(taxs[1]) >> \o FieldsOfAll(Tail(taxs))

Labels == Range(LabelOrder)

\* The members (given by their labels, fs) that have a label at depth d, and
\* those that have label lab there.
ReadsAtDepth(fs, d) == { j \in DOMAIN fs : Len(fs[j]) >= d }

ReadsWithLabel(fs, d, lab) == { j \in ReadsAtDepth(fs, d) : fs[j][d] = lab }

\* The count of the plurality label at depth d.
PluralityCount(fs, d) ==
    LET counts == { Cardinality(ReadsWithLabel(fs, d, lab)) : lab \in Labels }
    IN  CHOOSE c \in counts : \A c2 \in counts : c2 <= c

\* The number of depths any member has.
MaxDepth(fs) ==
    LET depths == { Len(fs[j]) : j \in DOMAIN fs } \cup {0}
    IN  CHOOSE n \in depths : \A n2 \in depths : n2 <= n

\* Depth d passes the 50% test when the share is taken of the members that
\* have a label at depth d / of the whole group.
PassesOfLabelled(fs, d) ==
    2 * PluralityCount(fs, d) >= Cardinality(ReadsAtDepth(fs, d))

PassesOfGroup(fs, d) == 2 * PluralityCount(fs, d) >= Len(fs)

\* tax is a consensus of exactly the first n depths: one plurality label per
\* depth, joined with '; '.
ConsensusOfDepth(fs, n, tax) ==
    IF n = 0 THEN tax = EmptyString
    ELSE /\ Len(Fields(tax)) = n
         /\ \A d \in 1..n :
               Cardinality(ReadsWithLabel(fs, d, Fields(tax)[d])) =
                   PluralityCount(fs, d)
         /\ tax = Join(Fields(tax))

(***************************************************************************)
(* C1.  Aggregator conservation: once the call is over, for any lookup and *)
(* either mode, the counts of the emitted records sum to the number of     *)
(* input records.  Refuted: in first-hit mode an empty lookup makes the    *)
(* generator raise IndexError (see C4) and no record is emitted.           *)
(***************************************************************************)
C1_Conservation ==
    AggregatorOver => SumCounts(infos) = Len(sequences)

(***************************************************************************)
(* C4.  Empty taxonomies: in both modes a group whose collected taxonomies *)
(* list is empty is emitted with taxonomy '' and nothing is raised.        *)
(* Refuted: collected_info.taxonomies[0] raises IndexError in first-hit    *)
(* mode.                                                                   *)
(***************************************************************************)
C4_EmptyTaxonomies ==
    AggregatorOver =>
        \A k \in DOMAIN seq_to_collected_info :
            seq_to_collected_info[k].taxonomies = << >> =>
                /\ raised = "none"
                /\ \E a \in DOMAIN infos :
                      infos[a].seq = k /\ infos[a].taxonomy = EmptyString

C6_Grouping ==
    /\ pc # "collect" =>
          \A i, j \in DOMAIN sequences :
              /\ SameGroup(i, j) <=>
                    sequences[i].aligned_sequence = sequences[j].aligned_sequence
              /\ sequences[i].aligned_sequence \in DOMAIN seq_to_collected_info
              /\ sequences[i].name \in
                    Range(seq_to_collected_info[sequences[i].aligned_sequence].names)
    /\ pc = "yielded" =>
          /\ \A i, j \in DOMAIN sequences :
                SameInfo(i, j) <=>
                    sequences[i].aligned_sequence = sequences[j].aligned_sequence
          /\ \A i \in DOMAIN sequences : \E a \in DOMAIN infos :
                /\ infos[a].seq = sequences[i].aligned_sequence
                /\ sequences[i].name \in Range(infos[a].names)
          /\ \A a, b \in DOMAIN infos : a # b => infos[a].seq # infos[b].seq

\* Three reads, the first and third with the same window and the second one
\* gap character apart, were emitted as two records.
C6_Witness ==
    /\ pc = "yielded"
    /\ Len(sequences) = 3
    /\ sequences[1].aligned_sequence = "ACGT"
    /\ sequences[2].aligned_sequence = "AC-T"
    /\ sequences[3].aligned_sequence = "ACGT"
    /\ Len(infos) = 2

(***************************************************************************)
(* C3 as stated.  Consensus threshold: in consensus mode the emitted       *)
(* taxonomy keeps one plurality label for each depth up to, and not        *)
(* including, the first depth at which the plurality count is below 50% of *)
(* the reads that have a label at that depth.  Refuted: the code takes the *)
(* share of the whole group.                                               *)
(***************************************************************************)
C3_ThresholdOfLabelled ==
    (pc = "yielded" /\ ~use_first_taxonomy) =>
        \A a \in DOMAIN infos :
            LET fs == FieldsOfAll(GroupTaxes(infos[a]))
            IN  \E n \in 0..MaxDepth(fs) :
                    /\ \A d \in 1..n : PassesOfLabelled(fs, d)
                    /\ n < MaxDepth(fs) => ~PassesOfLabelled(fs, n + 1)
                    /\ ConsensusOfDepth(fs, n, infos[a].taxonomy)

(***************************************************************************)
(* C3 amended.  Consensus threshold: in consensus mode the emitted         *)
(* taxonomy keeps one plurality label for each depth up to, and not        *)
(* including, the first depth at which the plurality count is below 50%    *)
(* (boundary inclusive) of the number of reads in the group; that depth    *)
(* and all deeper ones are omitted.                                        *)
(***************************************************************************)
C3_ThresholdOfGroup ==
    (pc = "yielded" /\ ~use_first_taxonomy) =>
        \A a \in DOMAIN infos :
            LET fs == FieldsOfAll(GroupTaxes(infos[a]))
            IN  \E n \in 0..MaxDepth(fs) :
                    /\ \A d \in 1..n : PassesOfGroup(fs, d)
                    /\ n < MaxDepth(fs) => ~PassesOfGroup(fs, n + 1)
                    /\ ConsensusOfDepth(fs, n, infos[a].taxonomy)

\* A group of two reads, "a;x" and "a": x has exactly half of the group and
\* is kept.
C3_Witness ==
    /\ pc = "yielded"
    /\ ~use_first_taxonomy
    /\ \E a \in DOMAIN infos :
          /\ GroupTaxes(infos[a]) = << << "a", ";", "x" >>, << "a" >> >>
          /\ infos[a].taxonomy = << "a", ";", " ", "x" >>

(***************************************************************************)
(* Vocabulary of the rewriter's properties.                                *)
(***************************************************************************)
\* The positions <<j, i>> of the [name, multiplicity] pairs of the input.
InputPairs ==
    UNION { { << j, i >> : i \in { i \in DOMAIN jplace.placements[j].nm :
                                     Len(jplace.placements[j].nm[i]) = 2 } } :
            j \in { j \in DOMAIN jplace.placements :
                      "nm" \in DOMAIN jplace.placements[j] } }

PairName(pos) == jplace.placements[pos[1]].nm[pos[2]][1]

PairMultiplicity(pos) == jplace.placements[pos[1]].nm[pos[2]][2]

RECURSIVE SumMultiplicities(_)
SumMultiplicities(positions) ==
    IF positions = {} THEN 0
    ELSE LET pos == CHOOSE pos \in positions : TRUE
         IN  PairMultiplicity(pos) + SumMultiplicities(positions \ {pos})

\* The rewritten document, once written, with its placements as the mapping
\* from window sequence to entry that was serialised.
Output == [output_jplace_io[1] EXCEPT !.placements = @.value]

RECURSIVE SumOutput(_)
\* The sum of the multiplicities of the output entries of these sequences.
SumOutput(seqs) ==
    IF seqs = {} THEN 0
    ELSE LET q == CHOOSE q \in seqs : TRUE
         IN  Output.placements[q].nm[1][2] + SumOutput(seqs \ {q})

\* The read names the aggregated OTUs hold.
IndexedNames == UNION { Range(infos[a].names) : a \in DOMAIN infos }

\* The input pairs whose normalized name is a read of this OTU.
PairsOf(info) ==
    { pos \in InputPairs : RealName(PairName(pos)) \in Range(info.names) }

\* Some input pair names a read that no OTU holds.
HasAbsentName ==
    \E pos \in InputPairs : RealName(PairName(pos)) \notin IndexedNames

(***************************************************************************)
(* C2.  Rewriter conservation: once a version-3 document has been          *)
(* rewritten, the output multiplicities sum to the multiplicities of all   *)
(* input pairs, also when an OTU's first-encountered read is in no         *)
(* placement.  Refuted: such an OTU gets no example p and is left out of   *)
(* new_placements with its count.                                          *)
(***************************************************************************)
C2_RewriterConservation ==
    pc = "written" =>
        SumOutput(DOMAIN Output.placements) = SumMultiplicities(InputPairs)

(***************************************************************************)
(* C7.  Rewriter output entries: once the document has been rewritten,     *)
(* every OTU that owns a read named in the input has exactly one output    *)
(* entry, whose nm is the single pair (sequence, sum of the multiplicities *)
(* of the input pairs naming its reads).  Refuted by the OTU of C2, which  *)
(* has no entry.                                                           *)
(***************************************************************************)
C7_OneEntryPerOtu ==
    pc = "written" =>
        \A a \in DOMAIN infos :
            PairsOf(infos[a]) # {} =>
                /\ infos[a].seq \in DOMAIN Output.placements
                /\ Output.placements[infos[a].seq].nm =
                      << << infos[a].seq, SumMultiplicities(PairsOf(infos[a])) >> >>

(***************************************************************************)
(* C8.  Representative placement: the p of every output entry is the p of  *)
(* an input placement whose nm list names, after normalization, the first  *)
(* read (names[0]) of the entry's OTU.  Every input placement has a p of   *)
(* its own, so the p of a placement naming only other contributors is not  *)
(* the one used.                                                           *)
(***************************************************************************)
C8_RepresentativeP ==
    pc = "written" =>
        \A q \in DOMAIN Output.placements :
            \E a \in DOMAIN infos :
                /\ infos[a].seq = q
                /\ \E pos \in InputPairs :
                      /\ RealName(PairName(pos)) = infos[a].names[1]
                      /\ Output.placements[q].p = jplace.placements[pos[1]].p

\* An OTU of two reads: the first placement names its first read, the second
\* placement only its second read, and the entry has the first placement's p.
C8_Witness ==
    /\ pc = "written"
    /\ Len(jplace.placements) = 2
    /\ \E a \in DOMAIN infos :
          /\ Len(infos[a].names) = 2
          /\ \A pos \in InputPairs :
                RealName(PairName(pos)) = infos[a].names[pos[1]]
          /\ InputPairs = { << 1, 1 >>, << 2, 1 >> }
          /\ infos[a].seq \in DOMAIN Output.placements
          /\ Output.placements[infos[a].seq].p = jplace.placements[1].p
          /\ jplace.placements[1].p # jplace.placements[2].p

(***************************************************************************)
(* C9.  Version check: with a document whose version is not 3 the call     *)
(* raises straight from the load: no index is built, no placement is read, *)
(* and nothing is ever written to the output stream.                       *)
(***************************************************************************)
C9_VersionCheck ==
    jplace.version # 3 =>
        /\ pc \in {"load", "raised"}
        /\ pc = "raised" => raised = "Exception: jplace version"
        /\ name_to_info = << >>
        /\ sequence_to_count = << >>
        /\ sequence_to_example_p = << >>
        /\ placement_i = 1
        /\ nm_i = 1
        /\ output_jplace_io = << >>

\* A version-2 document with placements in it was refused.
C9_Witness ==
    /\ pc = "raised"
    /\ jplace.version = 2
    /\ InputPairs # {}
    /\ output_jplace_io = << >>

(***************************************************************************)
(* C10.  Out-of-sync join: when some [name, multiplicity] pair of the      *)
(* document has a normalized name that no OTU holds, the call never        *)
(* reaches the write: nothing is written to the output stream, and the     *)
(* only place it stops is a raised exception, however many pairs were      *)
(* counted before.                                                         *)
(***************************************************************************)
C10_OutOfSync ==
    HasAbsentName =>
        /\ output_jplace_io = << >>
        /\ pc \in {"load", "placements", "raised"}
        /\ pc = "placements" => placement_i <= Len(jplace.placements)
        /\ pc = "raised" => raised # "none"
        /\ pc # "raised" => ENABLED NextJplace

\* The second pair names a read no OTU holds: KeyError after the first pair
\* was counted, and nothing written.
C10_Witness ==
    /\ pc = "raised"
    /\ raised = "KeyError"
    /\ sequence_to_count # << >>
    /\ output_jplace_io = << >>

\* The window sequences of the OTUs handed to the rewriter.
WindowSequences == { infos[a].seq : a \in DOMAIN infos }

(***************************************************************************)
(* C11.  Output shape: the written document has the JSON shape of the      *)
(* input: its placements field is an array, each element of which has an   *)
(* nm field, a list of [name, multiplicity] pairs, and a p field, the      *)
(* names being window sequences of the OTUs.                               *)
(* Refuted: placements is written as a JSON object keyed by window         *)
(* sequence (pipe.py:443-449), never as an array.                          *)
(***************************************************************************)
C11_OutputShape ==
    pc = "written" =>
        LET placements == output_jplace_io[1].placements
        IN  /\ placements.json = "array"
            /\ \A k \in DOMAIN placements.value :
                  /\ DOMAIN placements.value[k] = {"nm", "p"}
                  /\ \A e \in DOMAIN placements.value[k].nm :
                        /\ Len(placements.value[k].nm[e]) = 2
                        /\ placements.value[k].nm[e][1] \in WindowSequences

\* The first member, in encounter order, that has label lab at depth d.
FirstSeen(fs, d, lab) ==
    CHOOSE j \in ReadsWithLabel(fs, d, lab) :
        \A j2 \in ReadsWithLabel(fs, d, lab) : j <= j2

(***************************************************************************)
(* C13.  Tie-break: in consensus mode the label kept at a depth has the    *)
(* highest count of that depth, and of the labels that share that count it *)
(* is the one whose first occurrence comes earliest among the group's      *)
(* reads.                                                                  *)
(* Refuted: of the labels that share the highest count the code keeps the  *)
(* one that level_counts.iteritems() gives first (pipe.py:398-401), and a  *)
(* dict is not iterated in insertion order.                                *)
(***************************************************************************)
C13_TieBreakFirstSeen ==
    (pc = "yielded" /\ ~use_first_taxonomy) =>
        \A a \in DOMAIN infos :
            LET fs   == FieldsOfAll(GroupTaxes(infos[a]))
                kept == Fields(infos[a].taxonomy)
            IN  \A d \in DOMAIN kept :
                    ReadsWithLabel(fs, d, kept[d]) # {} =>
                        /\ Cardinality(ReadsWithLabel(fs, d, kept[d])) =
                              PluralityCount(fs, d)
                        /\ \A lab \in Labels :
                              Cardinality(ReadsWithLabel(fs, d, lab)) =
                                  PluralityCount(fs, d)
                              => FirstSeen(fs, d, kept[d]) <= FirstSeen(fs, d, lab)

(***************************************************************************)
(* C14.  Determinism: a run of the aggregator on the same sequences,       *)
(* lookup and mode yields the same records, in the same order and with the *)
(* same taxonomies, whatever the order in which its dicts are iterated.    *)
(* Refuted: the records are yielded in the order of                        *)
(* seq_to_collected_info.iteritems() (pipe.py:366) and ties between labels *)
(* fall to the first of level_counts.iteritems() (pipe.py:398-401).        *)
(***************************************************************************)
C14_Determinism ==
    pc = "yielded" =>
        \A d \in DictOrders :
            LET again == YieldAll(d, CollectAll(sequences, taxonomies),
                                  use_first_taxonomy)
            IN  again.ok /\ again.val = infos

(***************************************************************************)
(* Vocabulary of the per-record properties.                                *)
(***************************************************************************)
\* The input records whose window is w, in encounter order.
MembersOf(w) == SelectSeq(sequences, LAMBDA s : s.aligned_sequence = w)

MemberNames(w) == [k \in 1..Len(MembersOf(w)) |-> MembersOf(w)[k].name]

MemberLengths(w) ==
    [k \in 1..Len(MembersOf(w)) |-> MembersOf(w)[k].aligned_length]

RECURSIVE SumCoverage(_)
SumCoverage(list) ==
    IF Len(list) = 0 THEN 0 ELSE list[1].coverage + SumCoverage(Tail(list))

\* The input records that have no entry in the lookup.
MissingEntries == { i \in DOMAIN sequences : sequences[i].name \notin DOMAIN taxonomies }

(***************************************************************************)
(* C15.  Missing taxonomy entry: a read with no entry in the lookup raises *)
(* nothing; its taxonomy is taken to be '', and its group's record counts  *)
(* it in count, names, coverage and aligned_lengths like any other member. *)
(* Refuted: when no read has an entry, the lookup being empty, first-hit   *)
(* mode raises IndexError (see C4).                                        *)
(***************************************************************************)
C15_MissingEntry ==
    AggregatorOver =>
        \A i \in MissingEntries :
            LET w == sequences[i].aligned_sequence
            IN  /\ raised = "none"
                /\ LookupTax(taxonomies, sequences[i].name) = EmptyString
                /\ \E a \in DOMAIN infos :
                      /\ infos[a].seq = w
                      /\ infos[a].count = Len(MembersOf(w))
                      /\ infos[a].names = MemberNames(w)
                      /\ infos[a].coverage = SumCoverage(MembersOf(w))
                      /\ infos[a].aligned_lengths = MemberLengths(w)
                      /\ use_first_taxonomy /\ infos[a].names[1] = sequences[i].name
                            => infos[a].taxonomy = EmptyString

(***************************************************************************)
(* C16.  Per-record invariant: every emitted record has count = length of  *)
(* names = length of aligned_lengths >= 1, its names are its group's       *)
(* member read names in encounter order and aligned_lengths[k] is the      *)
(* aligned length of the read names[k]; every input read name is in the    *)
(* names of exactly one emitted record, as often as it is in the input.    *)
(* Refuted: when first-hit mode raises IndexError (see C4) no record is    *)
(* emitted, so the input read names are in none.                           *)
(***************************************************************************)
C16_RecordInvariant ==
    AggregatorOver =>
        /\ \A a \in DOMAIN infos :
              /\ infos[a].count = Len(infos[a].names)
              /\ infos[a].count = Len(infos[a].aligned_lengths)
              /\ infos[a].count >= 1
              /\ infos[a].names = MemberNames(infos[a].seq)
              /\ infos[a].aligned_lengths = MemberLengths(infos[a].seq)
        /\ \A i \in DOMAIN sequences :
              \E a \in DOMAIN infos :
                  /\ Cardinality({ k \in DOMAIN infos[a].names :
                                     infos[a].names[k] = sequences[i].name }) =
                     Cardinality({ j \in DOMAIN sequences :
                                     sequences[j].name = sequences[i].name })
                  /\ \A b \in DOMAIN infos :
                        sequences[i].name \in Range(infos[b].names) => b = a

(***************************************************************************)
(* Vocabulary of run's properties.                                         *)
(***************************************************************************)
\* The steps of a given name that run has performed.
StepsNamed(name) == { k \in DOMAIN steps : steps[k].step = name }

\* The place of a pair in the order of the loops.
PairIndex(pair) == CHOOSE k \in 1..NumPairs : PairAt(k) = pair

\* The steps at which the loop found no window for its pair.
EmptyPairSteps == { k \in StepsNamed("windows") : steps[k].found = 0 }

\* The pair has rows in the OTU table / has had the rewriter called.
HasRows(pair) ==
    \E r \in DOMAIN otu_table_object :
        /\ otu_table_object[r].sample = pair[1]
        /\ otu_table_object[r].gene = pair[2]

Rewrote(pair) == \E k \in StepsNamed("rewrite") : steps[k].pair = pair

\* The loop has looked at the pair's windows.
Visited(pair) == \E k \in StepsNamed("windows") : steps[k].pair = pair

(***************************************************************************)
(* C12.  Empty pair is non-fatal: a pair for which the loop finds no       *)
(* window has no row in the OTU table and the rewriter is not called for   *)
(* it; after it the loop goes on with nothing raised, passing over only    *)
(* pairs that have no extracted reads, and when run returns every later    *)
(* pair that has extracted reads has been visited.                         *)
(***************************************************************************)
C12_EmptyPairNonFatal ==
    \A k \in EmptyPairSteps :
        LET pair == steps[k].pair
        IN  /\ ~HasRows(pair)
            /\ ~Rewrote(pair)
            /\ k = Len(steps) =>
                  /\ pc = "pairs"
                  /\ raised = "none"
                  /\ pair_i > PairIndex(pair)
                  /\ \A j \in (PairIndex(pair) + 1)..(pair_i - 1) :
                        PairAt(j) \notin sample_to_gpkg_to_input_sequences
            /\ pc = "returned" =>
                  \A j \in (PairIndex(pair) + 1)..NumPairs :
                      PairAt(j) \in sample_to_gpkg_to_input_sequences
                          => Visited(PairAt(j))

\* run has returned; its first pair had no window, and a later pair has
\* rows in the OTU table and a rewritten placement file.
C12_Witness ==
    /\ pc = "returned"
    /\ \E k \in EmptyPairSteps :
          /\ PairIndex(steps[k].pair) = 1
          /\ \E j \in 2..NumPairs : HasRows(PairAt(j)) /\ Rewrote(PairAt(j))

(***************************************************************************)
(* C17.  No-hit early exit: once the search has returned no sample, run    *)
(* has returned with return_cleanly performed and nothing raised, and the  *)
(* alignment, read extraction, taxonomic assignment and output writing     *)
(* have not been performed.                                                *)
(* Refuted: the arguments of the logging.debug call of pipe.py:105-106     *)
(* include sample_names[0], which raises IndexError on the empty list      *)
(* before the test of pipe.py:107 is reached.                              *)
(***************************************************************************)
C17_NoHitEarlyExit ==
    (StepsNamed("search") # {} /\ sample_names = << >>) =>
        /\ pc = "returned"
        /\ raised = "none"
        /\ StepsNamed("return_cleanly") # {}
        /\ StepsNamed("align") = {}
        /\ StepsNamed("extract") = {}
        /\ StepsNamed("assign") = {}
        /\ StepsNamed("outputs") = {}

====
